---- MODULE Spec2Model ----
(***************************************************************************)
(* A model of src/sort.py: the health-export filter that parses            *)
(* heterogeneous timestamps, keeps the rows inside five fixed windows,     *)
(* detects the bolus-indicator column over the first 500 insulin rows and  *)
(* aggregates four metrics per normalised timestamp.                       *)
(*                                                                         *)
(* Text that the program takes apart (timestamps, aggregate keys) is a     *)
(* sequence of one-character strings; CSV cells that the program only      *)
(* compares for equality are TLA+ strings, and Chars gives the characters  *)
(* of a cell that is handed to parse_date.                                 *)
(***************************************************************************)
EXTENDS Integers, Sequences, FiniteSets, TLC

VARIABLES header, rows, pc, error, cols, reader, scanned_insulin,
          insulin_positions, insulin_type_idx, data_by_time, total_rows,
          parsing_errors, insulin_examined, bolus_found,
          blood_glucose_count, dt, output,
          moment, date_string, in_range

vars == <<header, rows, pc, error, cols, reader, scanned_insulin,
          insulin_positions, insulin_type_idx, data_by_time, total_rows,
          parsing_errors, insulin_examined, bolus_found,
          blood_glucose_count, dt, output,
          moment, date_string, in_range>>

---------------------------------------------------------------------------
(* Python str operations, on sequences of characters.                      *)

Min(S) == CHOOSE x \in S : \A y \in S : x <= y

Max(S) == CHOOSE x \in S : \A y \in S : x >= y

\* the positions at which sub occurs in s
Occurrences(sub, s) ==
    {k \in 1..(Len(s) - Len(sub) + 1) : SubSeq(s, k, k + Len(sub) - 1) = sub}

\* sub in s
Contains(s, sub) == Occurrences(sub, s) # {}

\* s.split(sep, 1)
SplitFirst(s, sep) ==
    IF Contains(s, sep)
    THEN LET k == Min(Occurrences(sep, s))
         IN  <<SubSeq(s, 1, k - 1), SubSeq(s, k + Len(sep), Len(s))>>
    ELSE <<s>>

\* s.rsplit(sep, 1)
RSplitLast(s, sep) ==
    IF Contains(s, sep)
    THEN LET k == Max(Occurrences(sep, s))
         IN  <<SubSeq(s, 1, k - 1), SubSeq(s, k + Len(sep), Len(s))>>
    ELSE <<s>>

\* s.split(c) for a one-character separator c
RECURSIVE SplitAll(_, _)
SplitAll(s, c) ==
    IF Contains(s, <<c>>)
    THEN LET k == Min(Occurrences(<<c>>, s))
         IN  <<SubSeq(s, 1, k - 1)>> \o SplitAll(SubSeq(s, k + 1, Len(s)), c)
    ELSE <<s>>

\* s.count(c) for a one-character c
CountChar(s, c) == Cardinality(Occurrences(<<c>>, s))

\* s.replace(a, b) for one-character a and b
Replace(s, a, b) == [k \in 1..Len(s) |-> IF s[k] = a THEN b ELSE s[k]]

Digits == {"0", "1", "2", "3", "4", "5", "6", "7", "8", "9"}

DigitVal(c) ==
    CASE c = "0" -> 0 [] c = "1" -> 1 [] c = "2" -> 2 [] c = "3" -> 3
      [] c = "4" -> 4 [] c = "5" -> 5 [] c = "6" -> 6 [] c = "7" -> 7
      [] c = "8" -> 8 [] c = "9" -> 9

IsDigits(s) == Len(s) > 0 /\ \A k \in 1..Len(s) : s[k] \in Digits

RECURSIVE DigitsVal(_)
DigitsVal(s) ==
    IF Len(s) = 0 THEN 0
    ELSE 10 * DigitsVal(SubSeq(s, 1, Len(s) - 1)) + DigitVal(s[Len(s)])

\* s.strip() of blanks
RECURSIVE Strip(_)
Strip(s) ==
    IF Len(s) > 0 /\ s[1] = " " THEN Strip(Tail(s))
    ELSE IF Len(s) > 0 /\ s[Len(s)] = " " THEN Strip(SubSeq(s, 1, Len(s) - 1))
    ELSE s

\* int(s): blanks around, an optional sign, then decimal digits; anything
\* else raises ValueError (ok = FALSE)
ToInt(s) ==
    LET t    == Strip(s)
        sgn  == Len(t) > 0 /\ t[1] \in {"+", "-"}
        body == IF sgn THEN Tail(t) ELSE t
    IN  IF IsDigits(body)
        THEN [ok |-> TRUE,
              val |-> IF sgn /\ t[1] = "-" THEN 0 - DigitsVal(body)
                                            ELSE DigitsVal(body)]
        ELSE [ok |-> FALSE, val |-> 0]

\* the first n characters, s[:n], and the slice s[a:b] (0-based, clipped)
Slice(s, a, b) ==
    LET hi == IF b < Len(s) THEN b ELSE Len(s)
    IN  IF a >= hi THEN <<>> ELSE SubSeq(s, a + 1, hi)

---------------------------------------------------------------------------
(* datetime.datetime: the fields, the validity rules of the constructor    *)
(* and the comparison of offset-carrying values as instants.               *)

IsLeap(y) == (y % 4 = 0) /\ ((y % 100 # 0) \/ (y % 400 = 0))

DaysInMonth(y, m) ==
    CASE m \in {1, 3, 5, 7, 8, 10, 12} -> 31
      [] m \in {4, 6, 9, 11}           -> 30
      [] m = 2                         -> IF IsLeap(y) THEN 29 ELSE 28

RECURSIVE DaysBeforeMonth(_, _)
DaysBeforeMonth(y, m) ==
    IF m = 1 THEN 0 ELSE DaysBeforeMonth(y, m - 1) + DaysInMonth(y, m - 1)

DaysBeforeYear(y) ==
    LET p == y - 1 IN p * 365 + (p \div 4) - (p \div 100) + (p \div 400)

\* the constructor's range checks (ValueError when they fail)
ValidFields(y, mo, d, h, mi, s) ==
    /\ y \in 1..9999
    /\ mo \in 1..12
    /\ d >= 1 /\ d <= DaysInMonth(y, mo)
    /\ h \in 0..23
    /\ mi \in 0..59
    /\ s \in 0..59

\* datetime.timezone(timedelta(minutes=off)) needs -24h < off < 24h
ValidOffset(off) == off > -1440 /\ off < 1440

\* a datetime; aware = FALSE is a value without tzinfo (off is then 0)
DateTime(y, mo, d, h, mi, s, aware, off) ==
    [year |-> y, month |-> mo, day |-> d, hour |-> h, minute |-> mi,
     second |-> s, aware |-> aware, off |-> off]

\* a result of an operation that may raise ValueError
Ok(v) == [ok |-> TRUE, val |-> v]

NoDateTime == DateTime(1, 1, 1, 0, 0, 0, FALSE, 0)

Fail == [ok |-> FALSE, val |-> NoDateTime]

\* The instant of an offset-carrying datetime, in seconds.  Python counts
\* from 0001-01-01; the count here starts at 2000-01-01T00:00:00 UTC, which
\* leaves every comparison as it is and keeps the numbers of this century
\* within the integers of the model checker.
Instant(d) ==
    (DaysBeforeYear(d.year) - DaysBeforeYear(2000)
        + DaysBeforeMonth(d.year, d.month) + d.day - 1) * 86400
    + d.hour * 3600 + d.minute * 60 + d.second - d.off * 60

---------------------------------------------------------------------------
(* datetime.datetime.fromisoformat, as CPython 3.7 to 3.10 implement it:   *)
(* YYYY-MM-DD, then optionally any one separator character, HH[:MM[:SS]]   *)
(* and an offset +HH[:MM] or -HH[:MM].  Fractions of a second and offsets  *)
(* with a seconds field are outside the alphabet of the inputs modelled.   *)
(* (From 3.11 on the function also takes an offset without a colon; the    *)
(* value it then returns is the one the third branch of parse_date builds.)*)

\* HH, HH:MM or HH:MM:SS as <<h, m, s>>
ParseHMS(p) ==
    LET two(a) == IsDigits(Slice(p, a, a + 2)) /\ Len(Slice(p, a, a + 2)) = 2
        num(a) == DigitsVal(Slice(p, a, a + 2))
    IN  IF Len(p) = 2 /\ two(0)
        THEN [ok |-> TRUE, h |-> num(0), m |-> 0, s |-> 0]
        ELSE IF Len(p) = 5 /\ two(0) /\ p[3] = ":" /\ two(3)
        THEN [ok |-> TRUE, h |-> num(0), m |-> num(3), s |-> 0]
        ELSE IF Len(p) = 8 /\ two(0) /\ p[3] = ":" /\ two(3) /\ p[6] = ":"
                /\ two(6)
        THEN [ok |-> TRUE, h |-> num(0), m |-> num(3), s |-> num(6)]
        ELSE [ok |-> FALSE, h |-> 0, m |-> 0, s |-> 0]

\* the date part, the first ten characters
ParseYMD(p) ==
    IF /\ Len(p) = 10
       /\ IsDigits(Slice(p, 0, 4)) /\ p[5] = "-"
       /\ IsDigits(Slice(p, 5, 7)) /\ p[8] = "-"
       /\ IsDigits(Slice(p, 8, 10))
    THEN [ok |-> TRUE, y |-> DigitsVal(Slice(p, 0, 4)),
          m |-> DigitsVal(Slice(p, 5, 7)), d |-> DigitsVal(Slice(p, 8, 10))]
    ELSE [ok |-> FALSE, y |-> 0, m |-> 0, d |-> 0]

fromisoformat(s) ==
    LET date == ParseYMD(Slice(s, 0, 10))
        t    == Slice(s, 11, Len(s))
        sgn  == {k \in 1..Len(t) : t[k] \in {"+", "-"}}
        tzp  == IF sgn = {} THEN Len(t) + 1 ELSE Min(sgn)
        time == ParseHMS(Slice(t, 0, tzp - 1))
        tz   == ParseHMS(Slice(t, tzp, Len(t)))
        off  == (IF sgn # {} /\ t[tzp] = "-" THEN -1 ELSE 1)
                    * (tz.h * 60 + tz.m)
    IN  IF Len(s) < 10 \/ ~date.ok THEN Fail
        ELSE IF Len(s) = 10
        THEN IF ValidFields(date.y, date.m, date.d, 0, 0, 0)
             THEN Ok(DateTime(date.y, date.m, date.d, 0, 0, 0, FALSE, 0))
             ELSE Fail
        ELSE IF ~time.ok THEN Fail
        ELSE IF ~ValidFields(date.y, date.m, date.d, time.h, time.m, time.s)
        THEN Fail
        ELSE IF sgn = {}
        THEN Ok(DateTime(date.y, date.m, date.d, time.h, time.m, time.s,
                         FALSE, 0))
        ELSE IF ~tz.ok \/ tz.s # 0 \/ Len(Slice(t, tzp, Len(t))) = 8
                \/ ~ValidOffset(off)
        THEN Fail
        ELSE Ok(DateTime(date.y, date.m, date.d, time.h, time.m, time.s,
                         TRUE, off))

---------------------------------------------------------------------------
(* parse_date: the four layers, tried in the order of the source.          *)

\* "YYYY-MM-DD HH:MM:SS +ZZZZ", split by hand; ok = FALSE when the branch
\* raises (and swallows) an exception or ends without returning
ParseSpaced(s) ==
    LET sep     == IF Contains(s, <<" ", "+">>) THEN <<" ", "+">>
                                              ELSE <<" ", "-">>
        parts   == SplitFirst(s, sep)
        main    == parts[1]
        tz_part == parts[2]
        dtparts == SplitAll(main, " ")
        ymd     == SplitAll(dtparts[1], "-")
        hms     == SplitAll(dtparts[2], ":")
        year    == ToInt(ymd[1])
        month   == ToInt(ymd[2])
        day     == ToInt(ymd[3])
        hour    == ToInt(hms[1])
        minute  == ToInt(hms[2])
        second  == ToInt(hms[3])
        tz_hour == ToInt(Slice(tz_part, 0, 2))
        tz_min  == ToInt(Slice(tz_part, 2, 4))
        minutes == tz_hour.val * 60 + tz_min.val
        offset_minutes == IF sep = <<" ", "-">> THEN 0 - minutes ELSE minutes
    IN  IF Len(dtparts) # 2 THEN Fail
        ELSE IF Len(ymd) # 3 \/ ~year.ok \/ ~month.ok \/ ~day.ok THEN Fail
        ELSE IF Len(hms) # 3 \/ ~hour.ok \/ ~minute.ok \/ ~second.ok
        THEN Fail
        ELSE IF Len(tz_part) < 4 THEN Fail
        ELSE IF ~tz_hour.ok \/ ~tz_min.ok THEN Fail
        ELSE IF ~ValidOffset(offset_minutes) THEN Fail
        ELSE IF ~ValidFields(year.val, month.val, day.val, hour.val,
                             minute.val, second.val)
        THEN Fail
        ELSE Ok(DateTime(year.val, month.val, day.val, hour.val, minute.val,
                         second.val, TRUE, offset_minutes))

\* "YYYY-MM-DDTHH:MM:SS+ZZZZ": a colon is put into a four-character offset
\* a variant that knows the compact offset only with a plus sign
ParseCompactPlusOnly(s) ==
    LET parts     == SplitFirst(s, <<"T">>)
        date_part == parts[1]
        rest      == parts[2]
        plus      == SplitFirst(rest, <<"+">>)
    IN  IF Contains(rest, <<"+">>) /\ Len(plus[2]) = 4
        THEN fromisoformat(date_part \o <<"T">> \o plus[1] \o <<"+">>
                \o Slice(plus[2], 0, 2) \o <<":">> \o Slice(plus[2], 2, 4))
        ELSE Fail

ParseCompact(s) ==
    LET parts     == SplitFirst(s, <<"T">>)
        date_part == parts[1]
        rest      == parts[2]
        plus      == SplitFirst(rest, <<"+">>)
        minus     == RSplitLast(rest, <<"-">>)
        iso(time_part, sign, tz_part) ==
            date_part \o <<"T">> \o time_part \o <<sign>>
                \o Slice(tz_part, 0, 2) \o <<":">> \o Slice(tz_part, 2, 4)
    IN  IF Contains(rest, <<"+">>)
        THEN IF Len(plus[2]) = 4
             THEN fromisoformat(iso(plus[1], "+", plus[2]))
             ELSE Fail
        ELSE IF Contains(rest, <<"-">>)
        THEN IF Len(minus[2]) = 4
             THEN fromisoformat(iso(minus[1], "-", minus[2]))
             ELSE Fail
        ELSE Fail

\* the layers after the first one
ParseRest(s) ==
    LET direct   == fromisoformat(s)
        compact  == IF Contains(s, <<"T">>)
                       /\ (Contains(s, <<"+">>) \/ CountChar(s, "-") > 2)
                    THEN ParseCompact(s)
                    ELSE Fail
        fallback == IF Contains(s, <<"T">>)
                    THEN fromisoformat(Replace(s, "T", " "))
                    ELSE Fail
    IN  IF direct.ok THEN direct
        ELSE IF compact.ok THEN compact
        ELSE fallback

\* parse_date(date_string): ok = FALSE is the ValueError of its last line
parse_date(s) ==
    LET spaced == IF Contains(s, <<" ", "+">>) \/ Contains(s, <<" ", "-">>)
                  THEN ParseSpaced(s)
                  ELSE Fail
    IN  IF spaced.ok THEN spaced ELSE ParseRest(s)

---------------------------------------------------------------------------
(* dt.strftime("%Y-%m-%d %H:%M:%S%z") of an offset-carrying datetime.      *)

DigitChar(n) ==
    CASE n = 0 -> "0" [] n = 1 -> "1" [] n = 2 -> "2" [] n = 3 -> "3"
      [] n = 4 -> "4" [] n = 5 -> "5" [] n = 6 -> "6" [] n = 7 -> "7"
      [] n = 8 -> "8" [] n = 9 -> "9"

Pad2(n) == <<DigitChar((n \div 10) % 10), DigitChar(n % 10)>>

Pad4(n) == Pad2(n \div 100) \o Pad2(n % 100)

Abs(n) == IF n < 0 THEN 0 - n ELSE n

strftime(d) ==
    Pad4(d.year) \o <<"-">> \o Pad2(d.month) \o <<"-">> \o Pad2(d.day)
        \o <<" ">> \o Pad2(d.hour) \o <<":">> \o Pad2(d.minute) \o <<":">>
        \o Pad2(d.second)
        \o (IF d.aware
            THEN <<IF d.off < 0 THEN "-" ELSE "+">>
                    \o Pad2(Abs(d.off) \div 60) \o Pad2(Abs(d.off) % 60)
            ELSE <<>>)

---------------------------------------------------------------------------
(* The characters of the CSV cells and literals that reach the parsers.    *)

Chars(cell) ==
    CASE cell = "2024-02-12T12:00:00+01:00" ->
           <<"2", "0", "2", "4", "-", "0", "2", "-", "1", "2", "T", "1", "2", ":", "0", "0", ":", "0", "0", "+", "0", "1", ":", "0", "0">>
      [] cell = "2024-02-22T04:00:00+01:00" ->
           <<"2", "0", "2", "4", "-", "0", "2", "-", "2", "2", "T", "0", "4", ":", "0", "0", ":", "0", "0", "+", "0", "1", ":", "0", "0">>
      [] cell = "2025-05-21T12:00:00+02:00" ->
           <<"2", "0", "2", "5", "-", "0", "5", "-", "2", "1", "T", "1", "2", ":", "0", "0", ":", "0", "0", "+", "0", "2", ":", "0", "0">>
      [] cell = "2025-06-04T17:00:00+02:00" ->
           <<"2", "0", "2", "5", "-", "0", "6", "-", "0", "4", "T", "1", "7", ":", "0", "0", ":", "0", "0", "+", "0", "2", ":", "0", "0">>
      [] cell = "2025-06-04T23:00:00+02:00" ->
           <<"2", "0", "2", "5", "-", "0", "6", "-", "0", "4", "T", "2", "3", ":", "0", "0", ":", "0", "0", "+", "0", "2", ":", "0", "0">>
      [] cell = "2025-06-11T21:00:00+02:00" ->
           <<"2", "0", "2", "5", "-", "0", "6", "-", "1", "1", "T", "2", "1", ":", "0", "0", ":", "0", "0", "+", "0", "2", ":", "0", "0">>
      [] cell = "2025-06-11T23:00:00+02:00" ->
           <<"2", "0", "2", "5", "-", "0", "6", "-", "1", "1", "T", "2", "3", ":", "0", "0", ":", "0", "0", "+", "0", "2", ":", "0", "0">>
      [] cell = "2025-06-18T22:00:00+02:00" ->
           <<"2", "0", "2", "5", "-", "0", "6", "-", "1", "8", "T", "2", "2", ":", "0", "0", ":", "0", "0", "+", "0", "2", ":", "0", "0">>
      [] cell = "2025-06-19T01:00:00+02:00" ->
           <<"2", "0", "2", "5", "-", "0", "6", "-", "1", "9", "T", "0", "1", ":", "0", "0", ":", "0", "0", "+", "0", "2", ":", "0", "0">>
      [] cell = "2025-06-25T22:00:00+02:00" ->
           <<"2", "0", "2", "5", "-", "0", "6", "-", "2", "5", "T", "2", "2", ":", "0", "0", ":", "0", "0", "+", "0", "2", ":", "0", "0">>
      [] cell = "2025-05-22 10:00:00 +0200" ->
           <<"2", "0", "2", "5", "-", "0", "5", "-", "2", "2", " ", "1", "0", ":", "0", "0", ":", "0", "0", " ", "+", "0", "2", "0", "0">>
      [] cell = "2025-05-22T10:00:00+02:00" ->
           <<"2", "0", "2", "5", "-", "0", "5", "-", "2", "2", "T", "1", "0", ":", "0", "0", ":", "0", "0", "+", "0", "2", ":", "0", "0">>
      [] cell = "2025-05-22T10:00:00+0200" ->
           <<"2", "0", "2", "5", "-", "0", "5", "-", "2", "2", "T", "1", "0", ":", "0", "0", ":", "0", "0", "+", "0", "2", "0", "0">>
      [] cell = "2025-05-22T09:30:00+01:00" ->
           <<"2", "0", "2", "5", "-", "0", "5", "-", "2", "2", "T", "0", "9", ":", "3", "0", ":", "0", "0", "+", "0", "1", ":", "0", "0">>
      [] cell = "2025-05-22T09:30:00+0100" ->
           <<"2", "0", "2", "5", "-", "0", "5", "-", "2", "2", "T", "0", "9", ":", "3", "0", ":", "0", "0", "+", "0", "1", "0", "0">>
      [] cell = "2025-06-04 17:00:00 +0200" ->
           <<"2", "0", "2", "5", "-", "0", "6", "-", "0", "4", " ", "1", "7", ":", "0", "0", ":", "0", "0", " ", "+", "0", "2", "0", "0">>
      [] cell = "2025-06-04 20:00:00 +0200" ->
           <<"2", "0", "2", "5", "-", "0", "6", "-", "0", "4", " ", "2", "0", ":", "0", "0", ":", "0", "0", " ", "+", "0", "2", "0", "0">>
      [] cell = "not-a-date" ->
           <<"n", "o", "t", "-", "a", "-", "d", "a", "t", "e">>
      [] cell = "2025-05-22T10:00:00" ->
           <<"2", "0", "2", "5", "-", "0", "5", "-", "2", "2", "T", "1", "0", ":", "0", "0", ":", "0", "0">>

---------------------------------------------------------------------------
(* is_in_date_range: the five closed windows.                              *)

Ranges ==
    << <<"2024-02-12T12:00:00+01:00", "2024-02-22T04:00:00+01:00">>,
       <<"2025-05-21T12:00:00+02:00", "2025-06-04T17:00:00+02:00">>,
       <<"2025-06-04T23:00:00+02:00", "2025-06-11T21:00:00+02:00">>,
       <<"2025-06-11T23:00:00+02:00", "2025-06-18T22:00:00+02:00">>,
       <<"2025-06-19T01:00:00+02:00", "2025-06-25T22:00:00+02:00">> >>

range_start(k) == fromisoformat(Chars(Ranges[k][1])).val

range_end(k) == fromisoformat(Chars(Ranges[k][2])).val

\* a <= b on two offset-carrying datetimes: they compare as instants
DateTimeLeq(a, b) == Instant(a) <= Instant(b)

\* a variant whose window leaves its end instant out
InRangeEndExcluded(k, d) ==
    DateTimeLeq(range_start(k), d) /\ Instant(d) < Instant(range_end(k))

\* range_start <= dt <= range_end
InRange(k, d) ==
    DateTimeLeq(range_start(k), d) /\ DateTimeLeq(d, range_end(k))

\* the value returned for an offset-carrying dt (a dt without an offset
\* makes the first comparison raise TypeError: see MainRow)
is_in_date_range(d) == \E k \in 1..Len(Ranges) : InRange(k, d)

---------------------------------------------------------------------------
(* main: the column resolver.                                              *)

HeartRate == "HKQuantityTypeIdentifierHeartRate"

BloodGlucose == "HKQuantityTypeIdentifierBloodGlucose"

DietaryCarbohydrates == "HKQuantityTypeIdentifierDietaryCarbohydrates"

InsulinDelivery == "HKQuantityTypeIdentifierInsulinDelivery"

RequiredColumns ==
    {"type", "value", "creationDate", "startDate", "sourceName"}

\* header.index(name), 0-based, of a name that is in the header
Index(h, name) == Min({k \in 1..Len(h) : h[k] = name}) - 1

Resolved(h) ==
    [type_idx        |-> Index(h, "type"),
     value_idx       |-> Index(h, "value"),
     date_idx        |-> Index(h, "creationDate"),
     start_date_idx  |-> Index(h, "startDate"),
     source_name_idx |-> Index(h, "sourceName")]

Unresolved ==
    [type_idx |-> 0, value_idx |-> 0, date_idx |-> 0, start_date_idx |-> 0,
     source_name_idx |-> 0]

\* row[idx] with Python's 0-based idx
Cell(row, idx) == row[idx + 1]

\* len(row) <= max(type_idx, value_idx, date_idx): the row is skipped
RowTooShort(row, c) ==
    Len(row) <= Max({c.type_idx, c.value_idx, c.date_idx})

---------------------------------------------------------------------------
(* main: the first pass, which detects the indicator column.               *)

\* the number of insulin rows the first pass scans
ScanLimit == 500

\* insulin_type_idx = None
None == -1

\* insulin_positions is a dict; here its items in insertion order
PosIndex(positions, p) == {k \in 1..Len(positions) : positions[k].pos = p}

\* insulin_positions[pos] = insulin_positions.get(pos, 0) + 1
Increment(positions, p) ==
    IF PosIndex(positions, p) = {}
    THEN Append(positions, [pos |-> p, n |-> 1])
    ELSE [k \in 1..Len(positions) |->
            IF positions[k].pos = p
            THEN [pos |-> p, n |-> positions[k].n + 1]
            ELSE positions[k]]

IsIndicator(cell) == cell \in {"1", "2"}

\* for pos, cell in enumerate(row): count the cells that are "1" or "2",
\* from position p on
RECURSIVE CountRow(_, _, _)
CountRow(positions, row, p) ==
    IF p >= Len(row) THEN positions
    ELSE CountRow(IF IsIndicator(Cell(row, p))
                  THEN Increment(positions, p)
                  ELSE positions,
                  row, p + 1)

\* a variant that resolves a tie in favour of the key inserted last
MaxKeyLastSeen(positions) ==
    LET best == Max({positions[k].n : k \in 1..Len(positions)})
    IN  positions[Max({k \in 1..Len(positions) : positions[k].n = best})].pos

\* max(insulin_positions, key=lambda k: insulin_positions[k]): the first
\* key, in insertion order, whose count is the highest
MaxKey(positions) ==
    LET best == Max({positions[k].n : k \in 1..Len(positions)})
    IN  positions[Min({k \in 1..Len(positions) : positions[k].n = best})].pos

ChooseIndicator(positions) ==
    IF positions = <<>> THEN None ELSE MaxKey(positions)

---------------------------------------------------------------------------
(* main: the second pass, one row at a time.                               *)

BlankEntry ==
    [heart_rate |-> "", blood_glucose |-> "", insulin_dose |-> "",
     dietary_carbohydrates |-> "", source_device |-> ""]

\* a variant that dates every row by creationDate
DateFieldIdxCreationOnly(row, c) == c.date_idx

\* blood glucose rows are dated by startDate, the others by creationDate
DateFieldIdx(row, c) ==
    IF Cell(row, c.type_idx) = BloodGlucose THEN c.start_date_idx
                                            ELSE c.date_idx

\* a variant that starts the entry of a key afresh at every row
EnsureFresh(map, key) ==
    [k \in DOMAIN map \cup {key} |->
        IF k = key THEN BlankEntry ELSE map[k]]

\* if date_str not in data_by_time: data_by_time[date_str] = {...}
Ensure(map, key) ==
    IF key \in DOMAIN map THEN map
    ELSE [k \in DOMAIN map \cup {key} |->
            IF k = key THEN BlankEntry ELSE map[k]]

\* data_by_time[key][field] = value
SetSlot(map, key, field, value) ==
    [map EXCEPT ![key] = [@ EXCEPT ![field] = value]]

\* a variant that takes either indicator for a bolus
IsBolusEitherIndicator(row, idx) ==
    idx # None /\ idx < Len(row) /\ Cell(row, idx) \in {"1", "2"}

\* the insulin row carries the bolus indicator "2" in the detected column
IsBolus(row, idx) ==
    idx # None /\ idx < Len(row) /\ Cell(row, idx) = "2"

\* the slot a row of a recognised type writes its value to ("" for others)
SlotOf(data_type) ==
    CASE data_type = HeartRate            -> "heart_rate"
      [] data_type = BloodGlucose         -> "blood_glucose"
      [] data_type = DietaryCarbohydrates -> "dietary_carbohydrates"
      [] data_type = InsulinDelivery      -> "insulin_dose"
      [] OTHER                            -> ""

\* the if/elif chain that routes row[value_idx]; for a blood glucose row
\* without a sourceName cell the glucose slot is written before
\* row[source_name_idx] raises IndexError
Route(map, key, row, c, idx) ==
    LET data_type == Cell(row, c.type_idx)
        value     == Cell(row, c.value_idx)
    IN  IF data_type = HeartRate
        THEN SetSlot(map, key, "heart_rate", value)
        ELSE IF data_type = BloodGlucose
        THEN IF c.source_name_idx < Len(row)
             THEN SetSlot(SetSlot(map, key, "blood_glucose", value),
                          key, "source_device", Cell(row, c.source_name_idx))
             ELSE SetSlot(map, key, "blood_glucose", value)
        ELSE IF data_type = DietaryCarbohydrates
        THEN SetSlot(map, key, "dietary_carbohydrates", value)
        ELSE IF data_type = InsulinDelivery /\ IsBolus(row, idx)
        THEN SetSlot(map, key, "insulin_dose", value)
        ELSE map

\* dt = parse_date(row[date_field_idx]) of a row that has the cell (for a
\* row without it the loop body never calls parse_date)
Parsed(row, c) ==
    IF RowTooShort(row, c) \/ DateFieldIdx(row, c) >= Len(row) THEN Fail
    ELSE parse_date(Chars(Cell(row, DateFieldIdx(row, c))))

\* what the loop body does with one row, given what parse_date returned:
\*   "short"        the length guard skips it
\*   "no_date"      row[date_field_idx] raises IndexError
\*   "parse_error"  parse_date raised ValueError
\*   "type_error"   is_in_date_range compared a dt that has no offset
\*   "filtered"     dt is outside every window
\*   "no_source"    row[source_name_idx] raises IndexError
\*   "stored"       the row went through the if/elif chain
Classify(row, c, parsed) ==
    IF RowTooShort(row, c) THEN "short"
    ELSE IF DateFieldIdx(row, c) >= Len(row) THEN "no_date"
    ELSE IF ~parsed.ok THEN "parse_error"
    ELSE IF ~parsed.val.aware THEN "type_error"
    ELSE IF ~is_in_date_range(parsed.val) THEN "filtered"
    ELSE IF Cell(row, c.type_idx) = BloodGlucose
            /\ c.source_name_idx >= Len(row)
    THEN "no_source"
    ELSE "stored"

Outcome(row, c) == Classify(row, c, Parsed(row, c))

\* the aggregate key of a row whose date parses
date_str(row, c) == strftime(Parsed(row, c).val)

---------------------------------------------------------------------------
(* main: the writer.                                                       *)

\* ord(c) of the characters strftime produces
Ord(c) ==
    CASE c = " " -> 32 [] c = "+" -> 43 [] c = "-" -> 45 [] c = ":" -> 58
      [] c \in Digits -> 48 + DigitVal(c)

\* a < b on str: the first differing character decides, a prefix is less
RECURSIVE StrLess(_, _)
StrLess(a, b) ==
    IF Len(b) = 0 THEN FALSE
    ELSE IF Len(a) = 0 THEN TRUE
    ELSE IF a[1] = b[1] THEN StrLess(Tail(a), Tail(b))
    ELSE Ord(a[1]) < Ord(b[1])

\* sorted(keys)
\* a variant that writes the keys in descending order
RECURSIVE SortedDescending(_)
SortedDescending(keys) ==
    IF keys = {} THEN <<>>
    ELSE LET least == CHOOSE k \in keys :
                        \A o \in keys \ {k} : StrLess(k, o)
         IN  SortedDescending(keys \ {least}) \o <<least>>

RECURSIVE Sorted(_)
Sorted(keys) ==
    IF keys = {} THEN <<>>
    ELSE LET least == CHOOSE k \in keys :
                        \A o \in keys \ {k} : StrLess(k, o)
         IN  <<least>> \o Sorted(keys \ {least})

\* out_row = {"creationDate": creationDate}; out_row.update(entry)
OutRow(key, entry) ==
    [creationDate |-> key, heart_rate |-> entry.heart_rate,
     blood_glucose |-> entry.blood_glucose,
     insulin_dose |-> entry.insulin_dose,
     dietary_carbohydrates |-> entry.dietary_carbohydrates,
     source_device |-> entry.source_device]

WriteRows(map) ==
    LET order == Sorted(DOMAIN map)
    IN  [k \in 1..Len(order) |-> OutRow(order[k], map[order[k]])]

\* analyze_glucose_intervals reads a key back: a colon is put into the
\* offset and the result goes to fromisoformat
KeyDateTime(key) ==
    fromisoformat(Slice(key, 0, 22) \o <<":">> \o Slice(key, 22, Len(key))).val

---------------------------------------------------------------------------
(* The inputs: headers and data rows of the export.                        *)

\* the bound on the number of data rows of an input file
MaxRows == 2

\* type, value and creationDate first; startDate and sourceName after them
HeaderValueFirst ==
    <<"type", "value", "creationDate", "startDate", "sourceName",
      "meta1", "meta2">>

\* value after the other required columns
HeaderValueLast ==
    <<"type", "sourceName", "creationDate", "startDate", "value", "meta1">>

\* no startDate column
HeaderNoStartDate == <<"type", "value", "creationDate", "sourceName">>

Headers == {HeaderValueFirst, HeaderValueLast, HeaderNoStartDate}

InWindow == "2025-05-22 10:00:00 +0200"

InWindowIso == "2025-05-22T10:00:00+02:00"

InWindowCompact == "2025-05-22T10:00:00+0200"

\* the instant 10:30 +02:00, written with another offset
OtherOffset == "2025-05-22T09:30:00+01:00"

OtherOffsetCompact == "2025-05-22T09:30:00+0100"

WindowEnd == "2025-06-04 17:00:00 +0200"

InGap == "2025-06-04 20:00:00 +0200"

NotADate == "not-a-date"

NoOffset == "2025-05-22T10:00:00"

\* rows under HeaderValueFirst
RowsValueFirst ==
    { <<HeartRate, "61", InWindow, InWindow, "Watch", "", "">>,
      <<HeartRate, "75", InWindowIso, InWindowIso, "Watch", "", "">>,
      <<HeartRate, "61", OtherOffset, OtherOffset, "Watch", "", "">>,
      <<HeartRate, "61", InGap, InGap, "Watch", "", "">>,
      <<HeartRate, "61", NotADate, InWindow, "Watch", "", "">>,
      <<HeartRate, "61", NoOffset, InWindow, "Watch", "", "">>,
      <<HeartRate, "61">>,
      <<BloodGlucose, "5.4", InGap, InWindowCompact, "Dexcom", "", "">>,
      <<BloodGlucose, "6.1", InWindow, OtherOffsetCompact, "Libre", "", "">>,
      <<BloodGlucose, "5.4", InWindow, NotADate, "Dexcom", "", "">>,
      <<BloodGlucose, "5.4", InWindow>>,
      <<BloodGlucose, "5.4", InWindow, InWindow>>,
      <<DietaryCarbohydrates, "30", InWindow, InWindow, "App", "", "">>,
      <<DietaryCarbohydrates, "45", WindowEnd, WindowEnd, "App", "", "">>,
      <<"HKQuantityTypeIdentifierStepCount", "900", InWindow, InWindow,
        "Watch", "", "">>,
      <<InsulinDelivery, "4", InWindow, InWindow, "Pump", "2", "">>,
      <<InsulinDelivery, "3", InWindow, InWindow, "Pump", "1", "">>,
      <<InsulinDelivery, "6", OtherOffset, OtherOffset, "Pump", "", "2">>,
      <<InsulinDelivery, "4", InWindow, InWindow, "Pump", "", "">>,
      <<InsulinDelivery, "4", InWindow, InWindow, "Pump">>,
      <<InsulinDelivery, "2", InGap, InGap, "Pump", "", "">> }

\* rows under HeaderValueLast
RowsValueLast ==
    { <<HeartRate, "Watch", InWindow, InWindow, "61", "">>,
      <<BloodGlucose, "Dexcom", InGap, InWindowIso, "5.4", "">>,
      <<BloodGlucose, "Dexcom", InGap, InWindowIso>>,
      <<InsulinDelivery, "Pump", InWindow, InWindow, "4", "2">> }

\* rows under HeaderNoStartDate
RowsNoStartDate == { <<HeartRate, "61", InWindow, "Watch">> }

RowsUnder(h) ==
    IF h = HeaderValueFirst THEN RowsValueFirst
    ELSE IF h = HeaderValueLast THEN RowsValueLast
    ELSE RowsNoStartDate

\* the sequences of at most n elements of S
SeqsUpTo(S, n) == UNION {[1..k -> S] : k \in 0..n}

---------------------------------------------------------------------------
(* The run of main over one input file.                                    *)

NoMoment == [k |-> 0, edge |-> "", delta |-> 0, encoding |-> "",
             wall |-> NoDateTime]

\* the variables of the run, before the header is resolved
Start ==
    /\ pc = "resolve"
    /\ error = ""
    /\ cols = Unresolved
    /\ reader = 0
    /\ scanned_insulin = 0
    /\ insulin_positions = <<>>
    /\ insulin_type_idx = None
    /\ data_by_time = <<>>
    /\ total_rows = 0
    /\ parsing_errors = 0
    /\ insulin_examined = 0
    /\ bolus_found = 0
    /\ blood_glucose_count = 0
    /\ dt = NoDateTime
    /\ output = <<>>

Init ==
    /\ header \in Headers
    /\ rows \in SeqsUpTo(RowsUnder(header), MaxRows)
    /\ Start
    /\ moment = NoMoment
    /\ date_string = <<>>
    /\ in_range = FALSE

\* the five header.index calls succeed
ResolveColumns ==
    /\ pc = "resolve"
    /\ \A name \in RequiredColumns : \E k \in 1..Len(header) : header[k] = name
    /\ cols' = Resolved(header)
    /\ pc' = "detect"
    /\ UNCHANGED <<header, rows, error, reader, scanned_insulin,
                   insulin_positions, insulin_type_idx, data_by_time,
                   total_rows, parsing_errors, insulin_examined, bolus_found,
                   blood_glucose_count, dt, output, moment, date_string,
                   in_range>>

\* a header.index call raises ValueError: sys.exit(1)
MissingColumn ==
    /\ pc = "resolve"
    /\ \E name \in RequiredColumns : \A k \in 1..Len(header) : header[k] # name
    /\ pc' = "aborted"
    /\ error' = "MissingColumn"
    /\ UNCHANGED <<header, rows, cols, reader, scanned_insulin,
                   insulin_positions, insulin_type_idx, data_by_time,
                   total_rows, parsing_errors, insulin_examined, bolus_found,
                   blood_glucose_count, dt, output, moment, date_string,
                   in_range>>

\* one iteration of the first pass
DetectRow ==
    /\ pc = "detect"
    /\ reader < Len(rows)
    /\ scanned_insulin < ScanLimit
    /\ LET row  == rows[reader + 1]
           scan == ~RowTooShort(row, cols)
                   /\ Cell(row, cols.type_idx) = InsulinDelivery
       IN  /\ reader' = reader + 1
           /\ scanned_insulin' =
                IF scan THEN scanned_insulin + 1 ELSE scanned_insulin
           /\ insulin_positions' =
                IF scan THEN CountRow(insulin_positions, row, 0)
                        ELSE insulin_positions
    /\ UNCHANGED <<header, rows, pc, error, cols, insulin_type_idx,
                   data_by_time, total_rows, parsing_errors,
                   insulin_examined, bolus_found, blood_glucose_count, dt,
                   output, moment, date_string, in_range>>

\* the first pass ends (no row left, or the break after 500 insulin rows)
\* and the indicator column is chosen; the reader is rewound
DetectEnd ==
    /\ pc = "detect"
    /\ reader = Len(rows) \/ scanned_insulin >= ScanLimit
    /\ insulin_type_idx' = ChooseIndicator(insulin_positions)
    /\ reader' = 0
    /\ pc' = "main"
    /\ UNCHANGED <<header, rows, error, cols, scanned_insulin,
                   insulin_positions, data_by_time, total_rows,
                   parsing_errors, insulin_examined, bolus_found,
                   blood_glucose_count, dt, output, moment, date_string,
                   in_range>>

\* one iteration of the second pass
MainRow ==
    /\ pc = "main"
    /\ reader < Len(rows)
    /\ \E parsed \in {Parsed(rows[reader + 1], cols)} :
       \E out \in {Classify(rows[reader + 1], cols, parsed)} :
       LET row    == rows[reader + 1]
           key    == strftime(parsed.val)
           stored == out = "stored"
           isType(t) == Cell(row, cols.type_idx) = t
       IN  /\ reader' = reader + 1
           /\ total_rows' = total_rows + 1
           /\ dt' = IF parsed.ok THEN parsed.val ELSE dt
           /\ parsing_errors' =
                IF out = "parse_error" THEN parsing_errors + 1
                                       ELSE parsing_errors
           /\ data_by_time' =
                IF out \in {"stored", "no_source"}
                THEN Route(Ensure(data_by_time, key), key, row, cols,
                           insulin_type_idx)
                ELSE data_by_time
           /\ blood_glucose_count' =
                IF stored /\ isType(BloodGlucose)
                THEN blood_glucose_count + 1 ELSE blood_glucose_count
           /\ insulin_examined' =
                IF stored /\ isType(InsulinDelivery)
                THEN insulin_examined + 1 ELSE insulin_examined
           /\ bolus_found' =
                IF stored /\ isType(InsulinDelivery)
                   /\ IsBolus(row, insulin_type_idx)
                THEN bolus_found + 1 ELSE bolus_found
           /\ pc' = IF out \in {"no_date", "no_source", "type_error"}
                    THEN "aborted" ELSE "main"
           /\ error' = IF out \in {"no_date", "no_source"} THEN "IndexError"
                       ELSE IF out = "type_error" THEN "TypeError"
                       ELSE error
    /\ UNCHANGED <<header, rows, cols, scanned_insulin, insulin_positions,
                   insulin_type_idx, output, moment, date_string, in_range>>

\* the loop is over: the output file is written and the run ends
WriteOutput ==
    /\ pc = "main"
    /\ reader = Len(rows)
    /\ output' = WriteRows(data_by_time)
    /\ pc' = "done"
    /\ UNCHANGED <<header, rows, error, cols, reader, scanned_insulin,
                   insulin_positions, insulin_type_idx, data_by_time,
                   total_rows, parsing_errors, insulin_examined, bolus_found,
                   blood_glucose_count, dt, moment, date_string, in_range>>

Next ==
    \/ ResolveColumns
    \/ MissingColumn
    \/ DetectRow
    \/ DetectEnd
    \/ MainRow
    \/ WriteOutput

Spec == Init /\ [][Next]_vars

---------------------------------------------------------------------------
(* The first pass over files of about 500 insulin rows.                    *)

\* the bound on the number of rows that follow the filler rows
TailLen == 2

PlainInsulin == <<InsulinDelivery, "4", InWindow, InWindow, "Pump", "", "">>

BasalInsulin == <<InsulinDelivery, "3", InWindow, InWindow, "Pump", "1", "">>

\* an insulin row that the length guard skips
ShortInsulin == <<InsulinDelivery, "4">>

FillerRows == {PlainInsulin, BasalInsulin}

TailRows ==
    { <<InsulinDelivery, "4", InWindow, InWindow, "Pump", "2", "">>,
      <<InsulinDelivery, "6", OtherOffset, OtherOffset, "Pump", "", "2">>,
      <<HeartRate, "1", InWindow, InWindow, "Watch", "", "">> }

DetectInputs ==
    { prefix \o [j \in 1..n |-> filler] \o tail :
        prefix \in {<<>>, <<ShortInsulin>>},
        n \in {ScanLimit - 2, ScanLimit - 1, ScanLimit},
        filler \in FillerRows,
        tail \in SeqsUpTo(TailRows, TailLen) }

InitDetect ==
    /\ header = HeaderValueFirst
    /\ rows \in DetectInputs
    /\ Start
    /\ moment = NoMoment
    /\ date_string = <<>>
    /\ in_range = FALSE

NextDetect ==
    \/ ResolveColumns
    \/ DetectRow
    \/ DetectEnd

SpecDetect == InitDetect /\ [][NextDetect]_vars

---------------------------------------------------------------------------
(* parse_date and is_in_date_range on the encodings of one moment.         *)

Offsets == {60, 120, -300, 330}

Deltas == {-3600, -1, 0, 1, 3600}

Edges == {"start", "end"}

OffsetEncodings == {"spaced", "iso", "compact", "blank"}

Encodings == OffsetEncodings \cup {"naive"}

\* the datetime delta seconds after b, on a clock whose offset is off (the
\* window boundaries are far enough from the ends of their months)
Shifted(b, delta, off) ==
    LET sod   == b.hour * 3600 + b.minute * 60 + b.second + delta
                    + (off - b.off) * 60
        shift == IF sod < 0 THEN -1 ELSE IF sod >= 86400 THEN 1 ELSE 0
        r     == sod - shift * 86400
    IN  DateTime(b.year, b.month, b.day + shift, r \div 3600,
                 (r % 3600) \div 60, r % 60, TRUE, off)

\* the encodings of the export (and of the docstring of parse_date):
\*   spaced   YYYY-MM-DD HH:MM:SS +HHMM
\*   iso      YYYY-MM-DDTHH:MM:SS+HH:MM
\*   compact  YYYY-MM-DDTHH:MM:SS+HHMM
\*   blank    YYYY-MM-DD HH:MM:SS+HH:MM  (iso with the T replaced)
\*   naive    YYYY-MM-DDTHH:MM:SS
Encode(d, encoding) ==
    LET date == Pad4(d.year) \o <<"-">> \o Pad2(d.month) \o <<"-">>
                    \o Pad2(d.day)
        time == Pad2(d.hour) \o <<":">> \o Pad2(d.minute) \o <<":">>
                    \o Pad2(d.second)
        sign == <<IF d.off < 0 THEN "-" ELSE "+">>
        hh   == Pad2(Abs(d.off) \div 60)
        mm   == Pad2(Abs(d.off) % 60)
    IN  CASE encoding = "spaced" ->
               date \o <<" ">> \o time \o <<" ">> \o sign \o hh \o mm
          [] encoding = "iso" ->
               date \o <<"T">> \o time \o sign \o hh \o <<":">> \o mm
          [] encoding = "compact" ->
               date \o <<"T">> \o time \o sign \o hh \o mm
          [] encoding = "blank" ->
               date \o <<" ">> \o time \o sign \o hh \o <<":">> \o mm
          [] encoding = "naive" ->
               date \o <<"T">> \o time

\* a moment delta seconds from an edge of window k, on a clock with one of
\* the offsets, in one of the encodings
Moments ==
    { [k |-> k, edge |-> edge, delta |-> delta, encoding |-> encoding,
       wall |-> Shifted(IF edge = "start" THEN range_start(k)
                                          ELSE range_end(k), delta, off)] :
        k \in 1..Len(Ranges), edge \in Edges, delta \in Deltas,
        off \in Offsets, encoding \in Encodings }

InitUnit ==
    /\ moment \in Moments
    /\ date_string = Encode(moment.wall, moment.encoding)
    /\ in_range = FALSE
    /\ dt = NoDateTime
    /\ pc = "parse"
    /\ error = ""
    /\ header = <<>>
    /\ rows = <<>>
    /\ cols = Unresolved
    /\ reader = 0
    /\ scanned_insulin = 0
    /\ insulin_positions = <<>>
    /\ insulin_type_idx = None
    /\ data_by_time = <<>>
    /\ total_rows = 0
    /\ parsing_errors = 0
    /\ insulin_examined = 0
    /\ bolus_found = 0
    /\ blood_glucose_count = 0
    /\ output = <<>>

\* dt = parse_date(date_string)
ParseStep ==
    /\ pc = "parse"
    /\ \E parsed \in {parse_date(date_string)} :
        /\ dt' = IF parsed.ok THEN parsed.val ELSE dt
        /\ pc' = IF parsed.ok THEN "filter" ELSE "aborted"
        /\ error' = IF parsed.ok THEN error ELSE "ValueError"
    /\ UNCHANGED <<header, rows, cols, reader, scanned_insulin,
                   insulin_positions, insulin_type_idx, data_by_time,
                   total_rows, parsing_errors, insulin_examined, bolus_found,
                   blood_glucose_count, output, moment, date_string,
                   in_range>>

\* is_in_date_range(dt); a dt without an offset raises TypeError
FilterStep ==
    /\ pc = "filter"
    /\ in_range' = IF dt.aware THEN is_in_date_range(dt) ELSE in_range
    /\ pc' = IF dt.aware THEN "done" ELSE "aborted"
    /\ error' = IF dt.aware THEN error ELSE "TypeError"
    /\ UNCHANGED <<header, rows, cols, reader, scanned_insulin,
                   insulin_positions, insulin_type_idx, data_by_time,
                   total_rows, parsing_errors, insulin_examined, bolus_found,
                   blood_glucose_count, dt, output, moment, date_string>>

NextUnit ==
    \/ ParseStep
    \/ FilterStep

SpecUnit == InitUnit /\ [][NextUnit]_vars

---------------------------------------------------------------------------
(* What the properties below say about the input, stated on the cells of   *)
(* the rows and not through the operators of the run.                      *)

\* the data rows the second pass has taken so far
Taken ==
    IF pc \in {"main", "done"} \/ (pc = "aborted" /\ error # "MissingColumn")
    THEN 1..reader ELSE {}

\* the first position of name in the header, counted from 1
Column(name) == CHOOSE k \in 1..Len(header) :
                    header[k] = name /\ \A i \in 1..(k - 1) : header[i] # name

HasCell(row, name) == Column(name) <= Len(row)

TypeOf(row) == row[Column("type")]

\* the row has its type, value and creationDate cells
LongEnough(row) ==
    HasCell(row, "type") /\ HasCell(row, "value")
        /\ HasCell(row, "creationDate")

\* the column whose timestamp dates the row
DateColumn(row) ==
    IF TypeOf(row) = BloodGlucose THEN "startDate" ELSE "creationDate"

\* the timestamp cells of the inputs: those inside a window, with the key
\* each one is stored under, and those outside every window
KeyOfCell(cell) ==
    CASE cell \in {InWindow, InWindowIso, InWindowCompact} ->
            <<"2", "0", "2", "5", "-", "0", "5", "-", "2", "2", " ", "1",
              "0", ":", "0", "0", ":", "0", "0", "+", "0", "2", "0", "0">>
      [] cell \in {OtherOffset, OtherOffsetCompact} ->
            <<"2", "0", "2", "5", "-", "0", "5", "-", "2", "2", " ", "0",
              "9", ":", "3", "0", ":", "0", "0", "+", "0", "1", "0", "0">>
      [] cell = WindowEnd ->
            <<"2", "0", "2", "5", "-", "0", "6", "-", "0", "4", " ", "1",
              "7", ":", "0", "0", ":", "0", "0", "+", "0", "2", "0", "0">>

InsideCells ==
    {InWindow, InWindowIso, InWindowCompact, OtherOffset, OtherOffsetCompact,
     WindowEnd}

\* the row is long enough and dated inside a window
Retained(row) ==
    /\ LongEnough(row)
    /\ HasCell(row, DateColumn(row))
    /\ row[Column(DateColumn(row))] \in InsideCells

KeyOfRow(row) == KeyOfCell(row[Column(DateColumn(row))])

Metrics ==
    {"heart_rate", "blood_glucose", "insulin_dose", "dietary_carbohydrates"}

Fields == Metrics \cup {"source_device"}

\* the row stores a dose: its cell in the detected column reads "2"
StoresDose(row) ==
    /\ TypeOf(row) = InsulinDelivery
    /\ insulin_type_idx # None
    /\ insulin_type_idx < Len(row)
    /\ row[insulin_type_idx + 1] = "2"

\* the retained row records the metric (or the field) f
Records(row, f) ==
    \/ f = "heart_rate" /\ TypeOf(row) = HeartRate
    \/ f = "blood_glucose" /\ TypeOf(row) = BloodGlucose
    \/ f = "source_device" /\ TypeOf(row) = BloodGlucose
         /\ HasCell(row, "sourceName")
    \/ f = "dietary_carbohydrates" /\ TypeOf(row) = DietaryCarbohydrates
    \/ f = "insulin_dose" /\ StoresDose(row)

\* the cell the row records for f
Recorded(row, f) ==
    IF f = "source_device" THEN row[Column("sourceName")]
                           ELSE row[Column("value")]

\* the slot f of key k; a key that is absent holds blanks
Slot(map, k, f) == IF k \in DOMAIN map THEN map[k][f] ELSE ""

---------------------------------------------------------------------------
\* C1: after the main pass a timestamp key exists in the aggregate map if
\* and only if a row dated inside a window recorded one of the four metrics
\* at that instant; a row of an unrecognised type, or an insulin row whose
\* dose is not stored, creates no key.
C1_KeyIffMetricRecorded ==
    pc = "done" =>
        DOMAIN data_by_time =
            { KeyOfRow(rows[j]) :
                j \in { i \in Taken :
                          /\ Retained(rows[i])
                          /\ \E f \in Metrics : Records(rows[i], f) } }

\* C2: a data row no longer than the highest column index it needs among
\* type, value, creationDate, startDate and sourceName is skipped: the
\* aggregate map and the parse-error counter keep their values and the run
\* does not abort.
C2_ShortRowSkipped ==
    [][ ( /\ pc = "main"
          /\ reader < Len(rows)
          /\ LET row == rows[reader + 1]
             IN  \/ ~LongEnough(row)
                 \/ /\ TypeOf(row) = BloodGlucose
                    /\ ~(HasCell(row, "startDate")
                            /\ HasCell(row, "sourceName")) )
        => ( /\ data_by_time' = data_by_time
             /\ parsing_errors' = parsing_errors
             /\ pc' # "aborted" ) ]_vars

\* C3: parse_date returns a datetime that carries an offset or raises the
\* ValueError the main pass catches; is_in_date_range never receives a
\* datetime without an offset and no timestamp string aborts the run.
C3_ParsedDatesCarryOffset ==
    /\ dt # NoDateTime => dt.aware
    /\ error # "TypeError"

---------------------------------------------------------------------------
\* the row is long enough and its timestamp cell does not parse
Unparseable(row) ==
    /\ LongEnough(row)
    /\ HasCell(row, DateColumn(row))
    /\ row[Column(DateColumn(row))] = NotADate

\* the row is long enough and its timestamp lies outside every window
Outside(row) ==
    /\ LongEnough(row)
    /\ HasCell(row, DateColumn(row))
    /\ row[Column(DateColumn(row))] = InGap

C4_Counted ==
    parsing_errors = Cardinality({j \in Taken : Unparseable(rows[j])})

C4_Step ==
    (pc = "main" /\ reader < Len(rows)) =>
        LET row == rows[reader + 1]
        IN  /\ Unparseable(row) =>
                /\ data_by_time' = data_by_time
                /\ parsing_errors' = parsing_errors + 1
                /\ pc' = "main"
                /\ reader' = reader + 1
            /\ Outside(row) =>
                /\ data_by_time' = data_by_time
                /\ parsing_errors' = parsing_errors
                /\ pc' = "main"

\* C4: the parse-error counter equals the number of sufficiently long rows
\* taken so far whose selected timestamp does not parse (so it does at the
\* end of the pass); such a row leaves the aggregate map as it is and the
\* pass goes on, and a row dated outside every window changes neither the
\* map nor the counter.
C4_ParseErrorsCounted == []C4_Counted /\ [][C4_Step]_vars

\* a run that went on after a timestamp that does not parse and after one
\* outside every window
C4_Witness ==
    /\ pc = "done"
    /\ Len(rows) = 2
    /\ Unparseable(rows[1])
    /\ Outside(rows[2])
    /\ parsing_errors = 1
    /\ output = <<>>

---------------------------------------------------------------------------
\* C6: a dose is in the insulin_dose slot of a key only if an insulin row
\* dated inside a window at that key reads "2" in the detected column; so
\* with no detected column, or with the column beyond the end of the row,
\* the slot stays blank, and no insulin row dated inside a window stops the
\* run.
C6_DoseOnlyFromBolusRows ==
    /\ \A k \in DOMAIN data_by_time :
          data_by_time[k].insulin_dose # "" =>
              \E j \in Taken :
                  /\ Retained(rows[j])
                  /\ KeyOfRow(rows[j]) = k
                  /\ StoresDose(rows[j])
                  /\ rows[j][Column("value")] = data_by_time[k].insulin_dose
    /\ insulin_type_idx = None =>
          /\ \A k \in DOMAIN data_by_time : data_by_time[k].insulin_dose = ""
          /\ \A i \in 1..Len(output) : output[i].insulin_dose = ""
    /\ (pc = "aborted" /\ Taken # {}) =>
          ~(Retained(rows[reader]) /\ TypeOf(rows[reader]) = InsulinDelivery)

\* a finished run without a detected column that took an insulin row dated
\* inside a window
C6_Witness ==
    /\ pc = "done"
    /\ insulin_type_idx = None
    /\ insulin_examined > 0
    /\ Len(output) > 0

---------------------------------------------------------------------------
C8_LastWriteWins ==
    \A k \in DOMAIN data_by_time : \A f \in Fields :
        LET writers == { j \in Taken : /\ Retained(rows[j])
                                       /\ KeyOfRow(rows[j]) = k
                                       /\ Records(rows[j], f) }
        IN  data_by_time[k][f] =
                IF writers = {} THEN ""
                ELSE Recorded(rows[Max(writers)], f)

C8_Frame ==
    (pc = "main" /\ reader < Len(rows)) =>
        LET row == rows[reader + 1]
        IN  /\ DOMAIN data_by_time \subseteq DOMAIN data_by_time'
            /\ \A k \in DOMAIN data_by_time' : \A f \in Fields :
                  Slot(data_by_time', k, f) # Slot(data_by_time, k, f) =>
                      /\ Retained(row)
                      /\ k = KeyOfRow(row)
                      /\ Records(row, f)
            /\ \A k \in DOMAIN data_by_time' \ DOMAIN data_by_time :
                  Retained(row) /\ k = KeyOfRow(row)

\* C8: a row changes only the slot of its own metric at its own key (and
\* source_device for a blood glucose row): every other slot of that key and
\* every slot of every other key keeps its value; a slot holds the value of
\* the last row, in input order, that recorded it.
C8_OnlyOwnSlotChanges == []C8_LastWriteWins /\ [][C8_Frame]_vars

\* two heart-rate rows at one key with different values, the second kept
C8_Witness ==
    /\ pc = "done"
    /\ Len(rows) = 2
    /\ \A j \in {1, 2} : Retained(rows[j]) /\ TypeOf(rows[j]) = HeartRate
    /\ KeyOfRow(rows[1]) = KeyOfRow(rows[2])
    /\ rows[1][Column("value")] # rows[2][Column("value")]
    /\ data_by_time[KeyOfRow(rows[2])].heart_rate = rows[2][Column("value")]

---------------------------------------------------------------------------
\* a sorts before b: at the first position where they differ a has the
\* character with the lower code (keys have one length)
LexBefore(a, b) ==
    \E i \in 1..Len(a) :
        /\ \A j \in 1..(i - 1) : a[j] = b[j]
        /\ Ord(a[i]) < Ord(b[i])

\* the +HHMM at the end of a key
OffsetOf(key) == SubSeq(key, Len(key) - 4, Len(key))

\* C9: the writer emits one row per key of the aggregate map, in strictly
\* ascending lexicographic order of the keys, with the slots of the key and
\* a blank for every metric no row recorded; two emitted keys with the same
\* UTC offset are also in chronological order.
C9_OneRowPerKeyAscending ==
    pc = "done" =>
        /\ Len(output) = Cardinality(DOMAIN data_by_time)
        /\ \A k \in DOMAIN data_by_time :
              \E i \in 1..Len(output) : output[i].creationDate = k
        /\ \A i \in 1..Len(output) :
              /\ output[i].creationDate \in DOMAIN data_by_time
              /\ \A f \in Fields :
                    output[i][f] = data_by_time[output[i].creationDate][f]
              /\ \A f \in Metrics :
                    (\A j \in Taken :
                        ~(/\ Retained(rows[j])
                          /\ KeyOfRow(rows[j]) = output[i].creationDate
                          /\ Records(rows[j], f)))
                    => output[i][f] = ""
        /\ \A i \in 1..Len(output) : \A j \in (i + 1)..Len(output) :
              /\ LexBefore(output[i].creationDate, output[j].creationDate)
              /\ OffsetOf(output[i].creationDate)
                    = OffsetOf(output[j].creationDate)
                 => Instant(KeyDateTime(output[i].creationDate))
                        < Instant(KeyDateTime(output[j].creationDate))

\* two rows written, keys with one offset, the later key first in the
\* input and without a heart rate
C9_Witness ==
    /\ pc = "done"
    /\ Len(output) = 2
    /\ OffsetOf(output[1].creationDate) = OffsetOf(output[2].creationDate)
    /\ Retained(rows[1])
    /\ KeyOfRow(rows[1]) = output[2].creationDate
    /\ output[2].heart_rate = ""
    /\ output[1].heart_rate # ""

---------------------------------------------------------------------------
\* the rows whose type cell reads insulin delivery, whatever their length
InsulinByType ==
    {j \in 1..Len(rows) :
        HasCell(rows[j], "type") /\ TypeOf(rows[j]) = InsulinDelivery}

\* those of them that have their type, value and creationDate cells
InsulinLongEnough == {j \in InsulinByType : LongEnough(rows[j])}

\* the first ScanLimit members of a set of row numbers
FirstOf(S) == {j \in S : Cardinality({i \in S : i <= j}) <= ScanLimit}

\* the rows of sample with "1" or "2" at position p (counted from 0)
WithIndicator(sample, p) ==
    {j \in sample : p < Len(rows[j]) /\ rows[j][p + 1] \in {"1", "2"}}

Positions == 0..(Len(header) - 1)

\* the position with the most indicator cells in the sample; among equals
\* the one met first, reading the sample row by row and each row from the
\* left; None without any indicator cell
Selected(sample) ==
    LET count(p) == Cardinality(WithIndicator(sample, p))
        most     == Max({count(p) : p \in Positions})
        first(p) == Min(WithIndicator(sample, p))
        tied     == {p \in Positions : count(p) = most}
    IN  IF most = 0 THEN None
        ELSE CHOOSE p \in tied :
                \A q \in tied \ {p} :
                    first(p) < first(q) \/ (first(p) = first(q) /\ p < q)

\* C5 as stated: the detector selects by the first 500 rows of the input
\* whose type is insulin delivery (highest count of "1"/"2" cells per
\* position, ties to the position seen first); later insulin rows have no
\* influence.
C5_FirstInsulinRowsByType ==
    pc = "main" => insulin_type_idx = Selected(FirstOf(InsulinByType))

\* C5: the detector selects by the first 500 insulin-delivery rows that have
\* their type, value and creationDate cells (shorter rows are passed over
\* and do not count towards the 500): it has examined exactly these rows,
\* its counter holds for each position the number of them with "1" or "2"
\* there, and the position selected has the highest count, ties going to
\* the position seen first; later rows have no influence.
C5_FirstLongEnoughInsulinRows ==
    /\ scanned_insulin <= ScanLimit
    /\ pc = "main" =>
        LET sample == FirstOf(InsulinLongEnough)
        IN  /\ scanned_insulin = Cardinality(sample)
            /\ \A p \in Positions :
                  LET n == Cardinality(WithIndicator(sample, p))
                  IN  IF n = 0 THEN PosIndex(insulin_positions, p) = {}
                      ELSE \E k \in PosIndex(insulin_positions, p) :
                              insulin_positions[k].n = n
            /\ insulin_type_idx = Selected(sample)

\* a short insulin row, 500 insulin rows without an indicator and then one
\* with a "2": 500 rows examined, nothing selected
C5_Witness ==
    /\ pc = "main"
    /\ rows[1] = ShortInsulin
    /\ Len(rows) = ScanLimit + 2
    /\ \E p \in Positions :
          WithIndicator({Len(rows)}, p) # {}
    /\ Len(rows) \in InsulinLongEnough
    /\ scanned_insulin = ScanLimit
    /\ insulin_type_idx = None

---------------------------------------------------------------------------
\* C7: a parsed timestamp passes the filter exactly when its instant is at
\* or after the start and at or before the end of a window, whatever the
\* offset of the clock it is written on: the instants of a start and of an
\* end pass, one second before a start or after an end does not.
C7_InclusiveInstantWindows ==
    pc = "done" =>
        (in_range <=> \/ moment.edge = "start" /\ moment.delta >= 0
                      \/ moment.edge = "end" /\ moment.delta <= 0)

\* the end instant of a window, written on a clock five hours behind UTC,
\* has passed the filter
C7_Witness ==
    /\ pc = "done"
    /\ moment.edge = "end"
    /\ moment.delta = 0
    /\ moment.wall.off = -300
    /\ dt.hour # range_end(moment.k).hour
    /\ in_range

---------------------------------------------------------------------------
\* the key of a moment: its spaced encoding without the blank before the
\* sign
KeyText(d) ==
    LET spaced == Encode(d, "spaced")
    IN  SubSeq(spaced, 1, 19) \o SubSeq(spaced, 21, Len(spaced))

\* C10: each of the four offset-carrying encodings of a moment is accepted
\* by parse_date and gives the moment itself (the same wall-clock fields and
\* offset, so the same instant), for positive and negative offsets, and the
\* same key.
C10_EncodingsGiveOneInstant ==
    (pc # "parse" /\ moment.encoding \in OffsetEncodings) =>
        /\ error = ""
        /\ dt = moment.wall
        /\ Instant(dt) = Instant(moment.wall)
        /\ strftime(dt) = KeyText(moment.wall)

\* a moment with a negative offset in the encoding without a colon, parsed
C10_Witness ==
    /\ pc = "done"
    /\ moment.encoding = "compact"
    /\ moment.wall.off < 0
    /\ dt = moment.wall

=============================================================================
